---------------------------- MODULE Spec2Model ----------------------------
(***************************************************************************)
(* Model of the styling configuration of inquire: src/ui/color.rs and     *)
(* src/ui/render_config.rs.                                                *)
(*                                                                         *)
(*   SpecStatic   the two lazy_static singletons behind                    *)
(*                default_static_ref() and empty_static_ref(), accessed    *)
(*                by several threads;                                      *)
(*   SpecBuilder  the constructors and with_<field> builders, applied in   *)
(*                chains;                                                  *)
(*   SpecColor    the Color enum and its conversion to the terminal        *)
(*                library's colour.                                        *)
(***************************************************************************)
EXTENDS Integers, Sequences, FiniteSets, TLC

VARIABLES
    \* ---- singletons (SpecStatic) ----
    pc,         \* thread -> "idle" | "call" | "init" | "publish" | "wait"
    slot,       \* thread -> the static the thread's current/last call is on
    once,       \* static -> "INCOMPLETE" | "RUNNING" | "COMPLETE"
    cell,       \* static -> None | Some(instance): the lazily filled storage
    initCount,  \* static -> number of times its initialiser has been executed
    rets,       \* static -> set of everything a call on it has returned
    calls,      \* thread -> number of accessor calls it has made
    late,       \* thread -> its current/last call began after initialisation
    blocked,    \* thread -> its current/last call has waited on another thread
    \* ---- builders (SpecBuilder) ----
    kind,       \* type of the value under construction, "none" before
    ctor,       \* the constructor that started the chain
    vals,       \* the values of the chain: after the constructor, after op 1, ...
    ops,        \* the builder calls of the chain: [op, arg]
    \* ---- colours (SpecColor) ----
    color,      \* the last Color converted
    ext         \* the result of the conversion

staticVars == <<pc, slot, once, cell, initCount, rets, calls, late, blocked>>
builderVars == <<kind, ctor, vals, ops>>
colorVars == <<color, ext>>
vars == <<pc, slot, once, cell, initCount, rets, calls, late, blocked,
          kind, ctor, vals, ops, color, ext>>

\* ------------------------------------------------------------------ bounds
NThreads == 3
MaxCalls == 2
MaxChain == 3
MaxArgColors == 2
MaxChannelLow == 1

U8Max == 255

Threads == 1..NThreads

\* Option<T>
None == [some |-> FALSE]
Some(x) == [some |-> TRUE, val |-> x]


\* ------------------------------------------------------------------ Color
\* enum Color: the variants in declaration order.
ColorVariants15 ==
    << "Black", "DarkGrey", "Red", "DarkRed", "Green", "DarkGreen", "Yellow",
       "DarkYellow", "Blue", "DarkBlue", "Magenta", "DarkMagenta", "Cyan",
       "DarkCyan", "White", "Rgb", "AnsiValue" >>

ColorVariants ==
    << "Black", "DarkGrey", "Red", "DarkRed", "Green", "DarkGreen", "Yellow",
       "DarkYellow", "Blue", "DarkBlue", "Magenta", "DarkMagenta", "Cyan",
       "DarkCyan", "White", "Grey", "Rgb", "AnsiValue" >>

\* The variants that carry no payload: the named colours.
NamedColorTags ==
    {ColorVariants[i] : i \in 1..Len(ColorVariants)} \ {"Rgb", "AnsiValue"}

NamedColor(tag) == [tag |-> tag]
Rgb(r, g, b) == [tag |-> "Rgb", r |-> r, g |-> g, b |-> b]
AnsiValue(n) == [tag |-> "AnsiValue", v |-> n]

\* u8 payloads. Channels are sampled at both ends of the range; the ANSI
\* index runs over the whole of u8.
ChannelVals == (0..MaxChannelLow) \cup ((U8Max - MaxChannelLow)..U8Max)
AnsiVals == 0..U8Max

NamedColors == {NamedColor(t) : t \in NamedColorTags}
RgbColors == {Rgb(r, g, b) : r \in ChannelVals, g \in ChannelVals, b \in ChannelVals}
AnsiColors == {AnsiValue(n) : n \in AnsiVals}
Colors == NamedColors \cup RgbColors \cup AnsiColors

\* crossterm::style::Color, the type the conversion produces.
CtNamed(tag) == [lib |-> "crossterm", tag |-> tag]
CtRgb(r, g, b) == [lib |-> "crossterm", tag |-> "Rgb", r |-> r, g |-> g, b |-> b]
CtAnsiValue(n) == [lib |-> "crossterm", tag |-> "AnsiValue", v |-> n]

IsU8(n) == n \in 0..U8Max

IsCrosstermColor(x) ==
    /\ x.lib = "crossterm"
    /\ CASE x.tag = "Rgb" ->
              DOMAIN x = {"lib", "tag", "r", "g", "b"}
              /\ IsU8(x.r) /\ IsU8(x.g) /\ IsU8(x.b)
         [] x.tag = "AnsiValue" ->
              DOMAIN x = {"lib", "tag", "v"} /\ IsU8(x.v)
         [] OTHER ->
              DOMAIN x = {"lib", "tag"}
              /\ x.tag \in {"Black", "DarkGrey", "Red", "DarkRed", "Green",
                            "DarkGreen", "Yellow", "DarkYellow", "Blue",
                            "DarkBlue", "Magenta", "DarkMagenta", "Cyan",
                            "DarkCyan", "White", "Grey"}

\* A conversion that crosses the red and blue channels.
Crossterm_from_swapped(c) ==
    CASE c.tag = "Rgb" -> CtRgb(c.b, c.g, c.r)
      [] c.tag = "AnsiValue" -> CtAnsiValue(c.v)
      [] OTHER -> CtNamed(c.tag)

\* impl From<Color> for crossterm::style::Color
Crossterm_from(c) ==
    CASE c.tag = "Black" -> CtNamed("Black")
      [] c.tag = "DarkGrey" -> CtNamed("DarkGrey")
      [] c.tag = "Red" -> CtNamed("Red")
      [] c.tag = "DarkRed" -> CtNamed("DarkRed")
      [] c.tag = "Green" -> CtNamed("Green")
      [] c.tag = "DarkGreen" -> CtNamed("DarkGreen")
      [] c.tag = "Yellow" -> CtNamed("Yellow")
      [] c.tag = "DarkYellow" -> CtNamed("DarkYellow")
      [] c.tag = "Blue" -> CtNamed("Blue")
      [] c.tag = "DarkBlue" -> CtNamed("DarkBlue")
      [] c.tag = "Magenta" -> CtNamed("Magenta")
      [] c.tag = "DarkMagenta" -> CtNamed("DarkMagenta")
      [] c.tag = "Cyan" -> CtNamed("Cyan")
      [] c.tag = "DarkCyan" -> CtNamed("DarkCyan")
      [] c.tag = "White" -> CtNamed("White")
      [] c.tag = "Grey" -> CtNamed("Grey")
      [] c.tag = "Rgb" -> CtRgb(c.r, c.g, c.b)
      [] c.tag = "AnsiValue" -> CtAnsiValue(c.v)

\* ------------------------------------------------- StyleSheet, Styled<T>
\* StyleSheet { fg: Option<Color>, bg: Option<Color>, att: attributes }
StyleSheet_empty == [fg |-> None, bg |-> None, att |-> {}]
StyleSheet_with_fg(self, fg) == [self EXCEPT !.fg = Some(fg)]
StyleSheet_with_bg(self, bg) == [self EXCEPT !.bg = Some(bg)]
StyleSheet_with_attr(self, a) == [self EXCEPT !.att = self.att \cup {a}]

\* Styled<T> { content: T, style: StyleSheet }
Styled_new(content) == [content |-> content, style |-> StyleSheet_empty]
Styled_with_fg(self, fg) == [self EXCEPT !.style = StyleSheet_with_fg(self.style, fg)]
Styled_with_bg(self, bg) == [self EXCEPT !.style = StyleSheet_with_bg(self.style, bg)]

\* ------------------------------------------------------ InputRenderConfig
InputRenderConfig_empty ==
    [text |-> StyleSheet_empty,
     cursor |-> StyleSheet_empty]

InputRenderConfig_with_text(self, text) == [self EXCEPT !.text = text]

InputRenderConfig_with_cursor(self, cursor) == [self EXCEPT !.cursor = cursor]

\* A default theme whose cursor colours are crossed.
InputRenderConfig_default_crossed ==
    [text |-> StyleSheet_empty,
     cursor |-> StyleSheet_with_fg(
                    StyleSheet_with_bg(StyleSheet_empty, NamedColor("Black")),
                    NamedColor("Grey"))]

InputRenderConfig_default ==
    [text |-> StyleSheet_empty,
     cursor |-> StyleSheet_with_fg(
                    StyleSheet_with_bg(StyleSheet_empty, NamedColor("Grey")),
                    NamedColor("Black"))]

\* ----------------------------------------------- ErrorMessageRenderConfig
\* An empty theme that keeps the default theme's red prefix.
ErrorMessageRenderConfig_empty_red ==
    [prefix |-> Styled_with_fg(Styled_new("#"), NamedColor("Red")),
     separator |-> StyleSheet_empty,
     message |-> StyleSheet_empty]

ErrorMessageRenderConfig_empty ==
    [prefix |-> Styled_new("#"),
     separator |-> StyleSheet_empty,
     message |-> StyleSheet_empty]

ErrorMessageRenderConfig_with_prefix(self, prefix) == [self EXCEPT !.prefix = prefix]

\* A separator builder that styles the message along with the separator.
ErrorMessageRenderConfig_with_separator_both(self, separator) ==
    [self EXCEPT !.separator = separator, !.message = separator]

ErrorMessageRenderConfig_with_separator(self, separator) ==
    [self EXCEPT !.separator = separator]

ErrorMessageRenderConfig_with_message(self, message) == [self EXCEPT !.message = message]

ErrorMessageRenderConfig_default ==
    [prefix |-> Styled_with_fg(Styled_new("#"), NamedColor("Red")),
     separator |-> StyleSheet_empty,
     message |-> StyleSheet_with_fg(StyleSheet_empty, NamedColor("Red"))]

\* ----------------------------------------------------------- RenderConfig
RenderConfig_empty ==
    [prompt_prefix |-> Styled_new("?"),
     prompt |-> StyleSheet_empty,
     default_value |-> StyleSheet_empty,
     text_input |-> InputRenderConfig_empty,
     error_message |-> ErrorMessageRenderConfig_empty,
     answer |-> StyleSheet_empty]

RenderConfig_default ==
    [prompt_prefix |-> Styled_with_fg(Styled_new("?"), NamedColor("Green")),
     prompt |-> StyleSheet_empty,
     default_value |-> StyleSheet_empty,
     text_input |-> InputRenderConfig_default,
     error_message |-> ErrorMessageRenderConfig_default,
     answer |-> StyleSheet_with_fg(StyleSheet_empty, NamedColor("Cyan"))]

RenderConfig_with_prompt_prefix(self, prompt_prefix) ==
    [self EXCEPT !.prompt_prefix = prompt_prefix]

RenderConfig_with_text_input(self, text_input) ==
    [self EXCEPT !.text_input = text_input]

\* A default-value builder that writes the neighbouring prompt field.
RenderConfig_with_default_value_prompt(self, default_value) ==
    [self EXCEPT !.prompt = default_value]

RenderConfig_with_default_value(self, default_value) ==
    [self EXCEPT !.default_value = default_value]

\* An answer builder that keeps an answer style that is already set.
RenderConfig_with_answer_keep(self, answer) ==
    IF self.answer = StyleSheet_empty THEN [self EXCEPT !.answer = answer] ELSE self

RenderConfig_with_answer(self, answer) ==
    [self EXCEPT !.answer = answer]

RenderConfig_with_error_message(self, error_message) ==
    [self EXCEPT !.error_message = error_message]

\* ------------------------------------------------ the lazy_static statics
Statics == {"DEFAULT_RENDER_CONFIG", "EMPTY_RENDER_CONFIG"}

\* Both statics initialised with the empty theme.
StaticInitializer_same(k) == RenderConfig_empty

\* static ref DEFAULT_RENDER_CONFIG: RenderConfig = RenderConfig::default();
\* static ref EMPTY_RENDER_CONFIG: RenderConfig = RenderConfig::empty();
StaticInitializer(k) ==
    IF k = "DEFAULT_RENDER_CONFIG" THEN RenderConfig_default ELSE RenderConfig_empty

\* The instance a static holds: which static, which construction, its value.
Instance(k, n, v) == [static |-> k, id |-> n, val |-> v]

\* &*STATIC once the lazy cell has been passed: the call returns what the
\* cell holds.
ReturnRef(t) ==
    /\ pc' = [pc EXCEPT ![t] = "idle"]
    /\ rets' = [rets EXCEPT ![slot[t]] = @ \cup {cell[slot[t]]}]

\* A getter that takes a lock for every access: a caller also waits while
\* another caller is inside the getter.
OnceBlocks_lock(t, k) ==
    \/ once[k] = "RUNNING"
    \/ \E u \in Threads \ {t} : pc[u] = "call" /\ slot[u] = k

\* A caller waits exactly while another thread runs the initialiser.
OnceBlocks(t, k) == once[k] = "RUNNING"

\* default_static_ref() / empty_static_ref(): thread t enters the accessor
\* of static k.
Deref(t, k) ==
    /\ pc[t] = "idle"
    /\ calls[t] < MaxCalls
    /\ pc' = [pc EXCEPT ![t] = "call"]
    /\ slot' = [slot EXCEPT ![t] = k]
    /\ calls' = [calls EXCEPT ![t] = @ + 1]
    /\ late' = [late EXCEPT ![t] = (once[k] = "COMPLETE")]
    /\ blocked' = [blocked EXCEPT ![t] = FALSE]
    /\ UNCHANGED <<once, cell, initCount, rets, builderVars, colorVars>>

\* A lazy getter that tests and sets its state in two steps: every caller
\* that finds the static not yet complete runs the initialiser.
CallOnce_racy(t) ==
    /\ pc[t] = "call"
    /\ IF once[slot[t]] = "COMPLETE"
          THEN ReturnRef(t) /\ UNCHANGED once
          ELSE /\ once' = [once EXCEPT ![slot[t]] = "RUNNING"]
               /\ pc' = [pc EXCEPT ![t] = "init"]
               /\ UNCHANGED rets
    /\ UNCHANGED <<slot, cell, initCount, calls, late, blocked, builderVars, colorVars>>

\* The lazy cell's one-time gate: a completed static is read at once; the
\* first caller to find it incomplete claims the initialisation in one
\* atomic step; a caller that finds it running waits.
CallOnce(t) ==
    /\ pc[t] = "call"
    /\ \/ /\ once[slot[t]] = "COMPLETE"
          /\ ~OnceBlocks(t, slot[t])
          /\ ReturnRef(t)
          /\ UNCHANGED <<once, blocked>>
       \/ /\ once[slot[t]] = "INCOMPLETE"
          /\ ~OnceBlocks(t, slot[t])
          /\ once' = [once EXCEPT ![slot[t]] = "RUNNING"]
          /\ pc' = [pc EXCEPT ![t] = "init"]
          /\ UNCHANGED <<rets, blocked>>
       \/ /\ OnceBlocks(t, slot[t])
          /\ pc' = [pc EXCEPT ![t] = "wait"]
          /\ blocked' = [blocked EXCEPT ![t] = TRUE]
          /\ UNCHANGED <<once, rets>>
    /\ UNCHANGED <<slot, cell, initCount, calls, late, builderVars, colorVars>>

\* The claiming thread executes the initialiser and stores its result.
RunInitializer(t) ==
    /\ pc[t] = "init"
    /\ initCount' = [initCount EXCEPT ![slot[t]] = @ + 1]
    /\ cell' = [cell EXCEPT ![slot[t]] =
                   Some(Instance(slot[t], initCount[slot[t]] + 1,
                                 StaticInitializer(slot[t])))]
    /\ pc' = [pc EXCEPT ![t] = "publish"]
    /\ UNCHANGED <<slot, once, rets, calls, late, blocked, builderVars, colorVars>>

\* The claiming thread marks the static complete and returns the reference.
Publish(t) ==
    /\ pc[t] = "publish"
    /\ once' = [once EXCEPT ![slot[t]] = "COMPLETE"]
    /\ ReturnRef(t)
    /\ UNCHANGED <<slot, cell, initCount, calls, late, blocked, builderVars, colorVars>>

\* A waiting thread resumes once the static is complete.
Wake(t) ==
    /\ pc[t] = "wait"
    /\ once[slot[t]] = "COMPLETE"
    /\ ReturnRef(t)
    /\ UNCHANGED <<slot, once, cell, initCount, calls, late, blocked, builderVars, colorVars>>

\* ------------------------------------------------------------------- Init
NoValue == [uninit |-> TRUE]

Init ==
    /\ pc = [t \in Threads |-> "idle"]
    /\ slot = [t \in Threads |-> "DEFAULT_RENDER_CONFIG"]
    /\ once = [k \in Statics |-> "INCOMPLETE"]
    /\ cell = [k \in Statics |-> None]
    /\ initCount = [k \in Statics |-> 0]
    /\ rets = [k \in Statics |-> {}]
    /\ calls = [t \in Threads |-> 0]
    /\ late = [t \in Threads |-> FALSE]
    /\ blocked = [t \in Threads |-> FALSE]
    /\ kind = "none"
    /\ ctor = "none"
    /\ vals = << >>
    /\ ops = << >>
    /\ color = NoValue
    /\ ext = NoValue

NextStatic ==
    \E t \in Threads :
        \/ \E k \in Statics : Deref(t, k)
        \/ CallOnce(t)
        \/ RunInitializer(t)
        \/ Publish(t)
        \/ Wake(t)

SpecStatic == Init /\ [][NextStatic]_vars

\* ------------------------------------------------- claims on the statics
\* C1: in every interleaving of threads calling default_static_ref() and
\* empty_static_ref(), each static's initialiser is executed at most once,
\* and exactly once as soon as the static is complete or any call on it has
\* returned.
C1_InitialiserRunsOnce ==
    \A k \in Statics :
        /\ initCount[k] <= 1
        /\ (rets[k] # {} \/ once[k] = "COMPLETE") => initCount[k] = 1

\* Both statics were first accessed by several threads at once: a thread
\* that had to wait for another thread's initialisation has returned, and
\* both statics have handed out their reference.
C1_Witness ==
    /\ \A k \in Statics : rets[k] # {} /\ initCount[k] = 1
    /\ \E t \in Threads : pc[t] = "idle" /\ blocked[t] /\ ~late[t]

\* C2: every call of an accessor returns the same, fully constructed
\* instance: the first construction of its static, whose value is
\* RenderConfig::default() for default_static_ref() and RenderConfig::empty()
\* for empty_static_ref(); the static never holds anything else.
C2_SameInstance ==
    \A k \in Statics :
        LET expected == IF k = "DEFAULT_RENDER_CONFIG"
                           THEN RenderConfig_default
                           ELSE RenderConfig_empty
            instance == Some([static |-> k, id |-> 1, val |-> expected])
        IN  /\ rets[k] \subseteq {instance}
            /\ cell[k] \in {None, instance}
            /\ once[k] = "COMPLETE" => cell[k] = instance

\* Two threads have each got the reference of both statics, one of them by
\* a call made after the initialisation.
C2_Witness ==
    /\ \A k \in Statics : rets[k] # {}
    /\ \E t, u \in Threads :
          /\ t # u
          /\ pc[t] = "idle" /\ pc[u] = "idle"
          /\ calls[t] = MaxCalls /\ calls[u] = MaxCalls
          /\ slot[t] = slot[u]
          /\ late[u] /\ ~late[t]

\* C8: a call that begins after its static's initialisation has completed
\* never waits on another thread and never initialises: it is at the gate
\* or has returned, and at the gate its step is enabled whatever the other
\* threads are doing.
C8_NoBlockingAfterInit ==
    \A t \in Threads :
        late[t] =>
            /\ ~blocked[t]
            /\ pc[t] \in {"idle", "call"}
            /\ pc[t] = "call" => ENABLED CallOnce(t)

\* A call made after the initialisation of its static has returned while
\* another thread is in the middle of initialising or waiting.
C8_Witness ==
    \E t, u \in Threads :
        /\ t # u
        /\ late[t] /\ pc[t] = "idle" /\ calls[t] > 0
        /\ pc[u] \in {"init", "publish", "wait"}

\* ------------------------------------------------------- builder chains
\* The arguments the builders are called with.
ArgColors == {NamedColor(ColorVariants[i]) : i \in 1..MaxArgColors}
ArgAttrs == {[attr |-> "BOLD"], [attr |-> "ITALIC"]}
StyleArgs ==
    {StyleSheet_empty} \cup {StyleSheet_with_fg(StyleSheet_empty, c) : c \in ArgColors}
StyledArgs ==
    {Styled_new(">")} \cup {Styled_with_fg(Styled_new("!"), c) : c \in ArgColors}
InputArgs ==
    {InputRenderConfig_empty, InputRenderConfig_default}
    \cup {InputRenderConfig_with_text(InputRenderConfig_empty, s) : s \in StyleArgs}
ErrorArgs ==
    {ErrorMessageRenderConfig_empty, ErrorMessageRenderConfig_default}
    \cup {ErrorMessageRenderConfig_with_separator(ErrorMessageRenderConfig_empty, s) :
            s \in StyleArgs}

\* A constructor call starts a chain.
Construct(k, c, v) ==
    /\ kind = "none"
    /\ kind' = k
    /\ ctor' = c
    /\ vals' = <<v>>
    /\ ops' = << >>
    /\ UNCHANGED <<staticVars, colorVars>>

\* A builder call consumes the chain's current value and yields the next.
Chain(k, op, arg, v) ==
    /\ kind = k
    /\ Len(ops) < MaxChain
    /\ vals' = Append(vals, v)
    /\ ops' = Append(ops, [op |-> op, arg |-> arg])
    /\ UNCHANGED <<kind, ctor, staticVars, colorVars>>

Cur == vals[Len(vals)]

New_StyleSheet_empty == Construct("StyleSheet", "empty", StyleSheet_empty)
New_InputRenderConfig_empty ==
    Construct("InputRenderConfig", "empty", InputRenderConfig_empty)
New_InputRenderConfig_default ==
    Construct("InputRenderConfig", "default", InputRenderConfig_default)
New_ErrorMessageRenderConfig_empty ==
    Construct("ErrorMessageRenderConfig", "empty", ErrorMessageRenderConfig_empty)
New_ErrorMessageRenderConfig_default ==
    Construct("ErrorMessageRenderConfig", "default", ErrorMessageRenderConfig_default)
New_RenderConfig_empty == Construct("RenderConfig", "empty", RenderConfig_empty)
New_RenderConfig_default == Construct("RenderConfig", "default", RenderConfig_default)

With_fg ==
    \E c \in ArgColors :
        Chain("StyleSheet", "with_fg", c, StyleSheet_with_fg(Cur, c))
With_bg ==
    \E c \in ArgColors :
        Chain("StyleSheet", "with_bg", c, StyleSheet_with_bg(Cur, c))
With_attr ==
    \E a \in ArgAttrs :
        Chain("StyleSheet", "with_attr", a, StyleSheet_with_attr(Cur, a))

With_text ==
    \E s \in StyleArgs :
        Chain("InputRenderConfig", "with_text", s, InputRenderConfig_with_text(Cur, s))
With_cursor ==
    \E s \in StyleArgs :
        Chain("InputRenderConfig", "with_cursor", s, InputRenderConfig_with_cursor(Cur, s))

With_prefix ==
    \E p \in StyledArgs :
        Chain("ErrorMessageRenderConfig", "with_prefix", p,
              ErrorMessageRenderConfig_with_prefix(Cur, p))
With_separator ==
    \E s \in StyleArgs :
        Chain("ErrorMessageRenderConfig", "with_separator", s,
              ErrorMessageRenderConfig_with_separator(Cur, s))
With_message ==
    \E s \in StyleArgs :
        Chain("ErrorMessageRenderConfig", "with_message", s,
              ErrorMessageRenderConfig_with_message(Cur, s))

With_prompt_prefix ==
    \E p \in StyledArgs :
        Chain("RenderConfig", "with_prompt_prefix", p,
              RenderConfig_with_prompt_prefix(Cur, p))
With_text_input ==
    \E i \in InputArgs :
        Chain("RenderConfig", "with_text_input", i,
              RenderConfig_with_text_input(Cur, i))
With_default_value ==
    \E s \in StyleArgs :
        Chain("RenderConfig", "with_default_value", s,
              RenderConfig_with_default_value(Cur, s))
With_answer ==
    \E s \in StyleArgs :
        Chain("RenderConfig", "with_answer", s, RenderConfig_with_answer(Cur, s))
With_error_message ==
    \E e \in ErrorArgs :
        Chain("RenderConfig", "with_error_message", e,
              RenderConfig_with_error_message(Cur, e))

NextBuilder ==
    \/ New_StyleSheet_empty
    \/ New_InputRenderConfig_empty
    \/ New_InputRenderConfig_default
    \/ New_ErrorMessageRenderConfig_empty
    \/ New_ErrorMessageRenderConfig_default
    \/ New_RenderConfig_empty
    \/ New_RenderConfig_default
    \/ With_fg
    \/ With_bg
    \/ With_attr
    \/ With_text
    \/ With_cursor
    \/ With_prefix
    \/ With_separator
    \/ With_message
    \/ With_prompt_prefix
    \/ With_text_input
    \/ With_default_value
    \/ With_answer
    \/ With_error_message

SpecBuilder == Init /\ [][NextBuilder]_vars

\* ------------------------------------------------ claims on the builders
\* The field each builder is named after.
TargetField ==
    [with_prompt_prefix |-> "prompt_prefix", with_text_input |-> "text_input",
     with_default_value |-> "default_value", with_answer |-> "answer",
     with_error_message |-> "error_message",
     with_text |-> "text", with_cursor |-> "cursor",
     with_prefix |-> "prefix", with_separator |-> "separator",
     with_message |-> "message",
     with_fg |-> "fg", with_bg |-> "bg", with_attr |-> "att"]

ConfigKinds == {"RenderConfig", "InputRenderConfig", "ErrorMessageRenderConfig"}

Unstyled == [fg |-> None, bg |-> None, att |-> {}]
FgOnly(tag) == [fg |-> Some([tag |-> tag]), bg |-> None, att |-> {}]

\* The style sheets and labels of a RenderConfig, by path.
Leaves(rc) ==
    [prompt_prefix |-> rc.prompt_prefix,
     prompt |-> rc.prompt,
     default_value |-> rc.default_value,
     text_input_text |-> rc.text_input.text,
     text_input_cursor |-> rc.text_input.cursor,
     answer |-> rc.answer,
     error_message_prefix |-> rc.error_message.prefix,
     error_message_separator |-> rc.error_message.separator,
     error_message_message |-> rc.error_message.message]

C4_EmptyIsUnstyled ==
    (kind = "RenderConfig" /\ ctor = "empty" /\ Len(ops) = 0) =>
        LET l == Leaves(Cur)
        IN  /\ \A p \in DOMAIN l \ {"prompt_prefix", "error_message_prefix"} :
                  l[p] = StyleSheet_empty /\ l[p] = Unstyled
            /\ l.prompt_prefix.content = "?"
            /\ l.prompt_prefix.style.fg = None
            /\ l.prompt_prefix.style.bg = None
            /\ l.error_message_prefix.content = "#"
            /\ l.error_message_prefix.style.fg = None
            /\ l.error_message_prefix.style.bg = None

\* RenderConfig::empty() has just been constructed.
C4_Witness ==
    /\ kind = "RenderConfig" /\ ctor = "empty" /\ Len(ops) = 0
    /\ Cur.error_message.prefix.content = "#"

\* C5: RenderConfig::default() is the curated theme: prefix "?" in green,
\* answer in cyan, cursor black on grey, error prefix "#" in red, error
\* message in red, everything else unstyled; it differs from empty() in
\* exactly those five leaves.
C5_DefaultIsCuratedTheme ==
    (kind = "RenderConfig" /\ ctor = "default" /\ Len(ops) = 0) =>
        LET l == Leaves(Cur)
            e == Leaves(RenderConfig_empty)
        IN  /\ l.prompt_prefix = [content |-> "?", style |-> FgOnly("Green")]
            /\ l.prompt = Unstyled
            /\ l.default_value = Unstyled
            /\ l.text_input_text = Unstyled
            /\ l.text_input_cursor =
                  [fg |-> Some([tag |-> "Black"]), bg |-> Some([tag |-> "Grey"]),
                   att |-> {}]
            /\ l.answer = FgOnly("Cyan")
            /\ l.error_message_prefix = [content |-> "#", style |-> FgOnly("Red")]
            /\ l.error_message_separator = Unstyled
            /\ l.error_message_message = FgOnly("Red")
            /\ {p \in DOMAIN l : l[p] # e[p]} =
                  {"prompt_prefix", "answer", "text_input_cursor",
                   "error_message_prefix", "error_message_message"}

\* RenderConfig::default() has just been constructed.
C5_Witness ==
    /\ kind = "RenderConfig" /\ ctor = "default" /\ Len(ops) = 0
    /\ Cur.text_input.cursor.bg # None

\* What a builder call stores in its field.
Stored(o) == IF o.op \in {"with_fg", "with_bg"} THEN Some(o.arg) ELSE o.arg

\* C7: in a builder chain every field holds what the last call for that
\* field stored, or the constructor's value when no call was for it (the
\* attributes are untouched by calls that are not for them); and repeating
\* a call with the same argument changes nothing.
C7_LastWriteWins ==
    (kind # "none") =>
        LET n == Len(ops)
            start == vals[1]
            W(f) == {i \in 1..n : TargetField[ops[i].op] = f}
            Last(S) == CHOOSE i \in S : \A j \in S : j <= i
        IN  /\ \A f \in DOMAIN start :
                  IF W(f) = {} THEN Cur[f] = start[f]
                  ELSE f # "att" => Cur[f] = Stored(ops[Last(W(f))])
            /\ (n >= 2 /\ ops[n] = ops[n - 1]) => vals[n + 1] = vals[n]

\* with_answer(A).with_answer(B) on the default theme, with A and B
\* different from each other and from the theme's own answer style.
C7_Witness ==
    /\ kind = "RenderConfig" /\ ctor = "default"
    /\ Len(ops) >= 2
    /\ ops[Len(ops)].op = "with_answer"
    /\ ops[Len(ops) - 1].op = "with_answer"
    /\ ops[Len(ops)].arg # ops[Len(ops) - 1].arg
    /\ ops[Len(ops) - 1].arg # vals[1].answer
    /\ Cur.answer = ops[Len(ops)].arg

\* C10: whatever RenderConfig builders are applied to RenderConfig::empty()
\* or RenderConfig::default(), the prompt style stays StyleSheet::empty().
C10_PromptStaysUnstyled ==
    kind = "RenderConfig" =>
        /\ Cur.prompt = StyleSheet_empty
        /\ Cur.prompt.fg = None /\ Cur.prompt.bg = None /\ Cur.prompt.att = {}

\* A full chain on the default theme that restyled default_value, the
\* field declared next to prompt, and two other fields.
C10_Witness ==
    /\ kind = "RenderConfig" /\ ctor = "default"
    /\ Len(ops) = MaxChain
    /\ \E i \in 1..MaxChain :
          ops[i].op = "with_default_value" /\ ops[i].arg # StyleSheet_empty
    /\ Cur.default_value # StyleSheet_empty
    /\ Cardinality({ops[i].op : i \in 1..MaxChain}) = MaxChain

\* ------------------------------------------------------ colour conversion
\* crossterm::style::Color::from(c), i.e. c.into()
Into(c) ==
    /\ color' = c
    /\ ext' = Crossterm_from(c)
    /\ UNCHANGED <<staticVars, builderVars>>

NextColor ==
    \/ \E c \in NamedColors : Into(c)
    \/ \E c \in RgbColors : Into(c)
    \/ \E c \in AnsiColors : Into(c)

SpecColor == Init /\ [][NextColor]_vars

\* -------------------------------------------------- claims on the colours
\* C6: the conversion yields a crossterm colour for every Color: the
\* like-named colour for a named one, Rgb with the same r, g, b, AnsiValue
\* with the same index; no other Color converts to the same result.
C6_ConversionPreservesStructure ==
    color # NoValue =>
        /\ IsCrosstermColor(ext)
        /\ ext.tag = color.tag
        /\ color.tag = "Rgb" =>
              ext.r = color.r /\ ext.g = color.g /\ ext.b = color.b
        /\ color.tag = "AnsiValue" => ext.v = color.v
        /\ \A c \in Colors : c # color => Crossterm_from(c) # ext

\* An Rgb colour whose three channels differ, at both ends of u8, has been
\* converted.
C6_Witness ==
    /\ color # NoValue
    /\ color.tag = "Rgb"
    /\ color.r = 0 /\ color.g = 1 /\ color.b = U8Max
    /\ ext.tag = "Rgb"

\* C9 as stated: Color has 15 named colours, Rgb and AnsiValue.
C9_FifteenNamedColors ==
    color # NoValue =>
        /\ Cardinality(NamedColorTags) = 15
        /\ color.tag \in NamedColorTags \cup {"Rgb", "AnsiValue"}

\* C9 as amended: Color has 16 named colours (Black, DarkGrey, Red, DarkRed,
\* Green, DarkGreen, Yellow, DarkYellow, Blue, DarkBlue, Magenta,
\* DarkMagenta, Cyan, DarkCyan, White, Grey), Rgb with three u8 channels and
\* AnsiValue with a u8 index, and no other variant.
C9_SixteenNamedColors ==
    color # NoValue =>
        /\ Cardinality(NamedColorTags) = 16
        /\ NamedColorTags =
              {"Black", "DarkGrey", "Red", "DarkRed", "Green", "DarkGreen",
               "Yellow", "DarkYellow", "Blue", "DarkBlue", "Magenta",
               "DarkMagenta", "Cyan", "DarkCyan", "White", "Grey"}
        /\ Len(ColorVariants) = 18
        /\ \/ color.tag \in NamedColorTags /\ DOMAIN color = {"tag"}
           \/ /\ color.tag = "Rgb"
              /\ DOMAIN color = {"tag", "r", "g", "b"}
              /\ color.r \in 0..255 /\ color.g \in 0..255 /\ color.b \in 0..255
           \/ /\ color.tag = "AnsiValue"
              /\ DOMAIN color = {"tag", "v"}
              /\ color.v \in 0..255

\* Grey, the sixteenth named colour, has been converted.
C9_Witness ==
    /\ color = [tag |-> "Grey"]
    /\ ext.tag = "Grey"

=============================================================================
